---------------------------- MODULE Spec2Model ----------------------------
(***************************************************************************)
(* Order lifecycle and loyalty ledger of restaurant2                       *)
(* (src/restaurant2/models.py, src/restaurant2/serializers.py).            *)
(*                                                                         *)
(* The persisted store is four tables: Order rows, OrderItem rows,         *)
(* OrderStatusHistory rows and Point rows.  Every ORM statement of the     *)
(* source is an operator from a store to a store; a serializer method is   *)
(* the composition of its statements, in the order the source runs them.   *)
(* Sequential specifications run a whole request as one action; the        *)
(* concurrent ones run one ORM statement per step (no transaction scoping  *)
(* appears in the source, so every statement commits on its own).          *)
(***************************************************************************)
EXTENDS Integers, Sequences, FiniteSets, TLC

\* ------------------------------------------------------------------ bounds
MaxItems == 2
MaxItemIds == 3
MaxHist == 3
MaxPoints == 3
NumWorkers == 2

\* ------------------------------------------------------------- value sets
Status == {"PENDING", "PREPARING", "READY", "COMPLETED", "CANCELLED"}
Terminal == {"COMPLETED", "CANCELLED"}
NonTerminal == Status \ Terminal

\* The lifecycle specifications follow one order from its creation: every
\* statement below reads and writes the rows of the order it is given only.
OrderSlots == {1}

NoTable == 0
NoUser == 0
Users == {1, 2}
MenuItems == {1, 2}

\* MenuItem.price is a decimal of two places: prices are counted in cents.
Prices == {300, 500}

\* An optional key of validated_data: <<>> when the key is absent, <<v>> when
\* it is present with value v.
Opt(S) == {<<>>} \cup {<<v>> : v \in S}
Has(opt) == opt # <<>>
Get(opt, default) == IF opt = <<>> THEN default ELSE opt[1]

SeqsUpTo(S, n) == UNION {[1..k -> S] : k \in 0..n}

\* ------------------------------------------------------------------ state
VARIABLES
    orderRows,      \* Order table: sequence of rows, the id is the index
    orderItems,     \* OrderItem table: function from the ids of the rows
    nextItemId,     \* OrderItem's auto-increment primary key
    statusHistory,  \* OrderStatusHistory rows of each order, oldest first
    pointRows,      \* Point table: sequence of rows in insertion order
    menuPrice,      \* MenuItem table: the price of each menu item, in cents
    workers,        \* request workers in flight: position and local values
    last,           \* the last completed order request and what it found
    lastPoint       \* the last completed ledger call and what it found

vars == <<orderRows, orderItems, nextItemId, statusHistory, pointRows,
          menuPrice, workers, last, lastPoint>>

\* The store as one value, so that a statement is a function of it.
DB == [order |-> orderRows, item |-> orderItems, nextItem |-> nextItemId,
       hist |-> statusHistory, point |-> pointRows, price |-> menuPrice]

OrderIds(d) == DOMAIN d.order
ItemIds(d) == DOMAIN d.item
ItemsOf(d, o) == {i \in ItemIds(d) : d.item[i].order = o}

\* ------------------------------------------------------- ORM statements
\* Order.objects.create(**validated_data): the model's defaults fill the
\* columns the caller left out.
Order_create(d, data) ==
    [d EXCEPT !.order = Append(@, [status |-> Get(data.status, "PENDING"),
                                    paid |-> Get(data.paid, FALSE),
                                    table |-> Get(data.table, NoTable),
                                    user |-> Get(data.user, NoUser)]),
              !.hist = Append(@, <<>>)]

\* OrderItem.objects.create(order=order, **order_item_data)
OrderItem_create(d, o, itemData) ==
    [d EXCEPT !.item = [i \in ItemIds(d) \cup {d.nextItem} |->
                            IF i = d.nextItem
                            THEN [order |-> o, menu_item |-> itemData.menu_item,
                                  quantity |-> itemData.quantity]
                            ELSE d.item[i]],
              !.nextItem = @ + 1]

\* for order_item_data in order_items_data: OrderItem.objects.create(...)
RECURSIVE OrderItems_createAll(_, _, _)
OrderItems_createAll(d, o, items) ==
    IF items = <<>> THEN d
    ELSE OrderItems_createAll(OrderItem_create(d, o, items[1]), o, Tail(items))

\* OrderStatusHistory.objects.create(order=order, status=status)
OrderStatusHistory_create(d, o, status) ==
    [d EXCEPT !.hist[o] = Append(@, status)]

\* A status assigned to the instance and never saved.
Order_unsaved(d, o, inst) == d

\* instance.save(): writes every column of the in-memory instance.
Order_save(d, o, inst) == [d EXCEPT !.order[o] = inst]

\* OrderItem.objects.filter(order=instance).delete()
OrderItems_deleteOf(d, o) ==
    [d EXCEPT !.item = [i \in ItemIds(d) \ ItemsOf(d, o) |-> d.item[i]]]

\* instance.delete() of one OrderItem; deleting a row that is gone deletes
\* nothing.
OrderItem_delete(d, i) ==
    [d EXCEPT !.item = [j \in ItemIds(d) \ {i} |-> d.item[j]]]

\* order.order_items.exists()
order_items_exists(d, o) == ItemsOf(d, o) # {}

\* Point.objects.create(user=user, restaurant=restaurant, amount=amount)
Point_create(d, pair, amount) ==
    [d EXCEPT !.point = Append(@, [pair |-> pair, amount |-> amount])]


\* ------------------------------------------------------ serializer methods
\* OrderManageSerializer.create
OrderManageSerializer_create(d, data) ==
    LET d1 == Order_create(d, data)
        o == Len(d1.order)
        d2 == OrderItems_createAll(d1, o, data.items)
    IN OrderStatusHistory_create(d2, o, d1.order[o].status)

\* Assignments that fall back to the model's default status.
OrderManageSerializer_assign_default(inst, data) ==
    [inst EXCEPT !.table = Get(data.table, inst.table),
                 !.status = Get(data.status, "PENDING"),
                 !.paid = Get(data.paid, inst.paid)]

\* The assignments of OrderManageSerializer.update to the instance.
OrderManageSerializer_assign(inst, data) ==
    [inst EXCEPT !.table = Get(data.table, inst.table),
                 !.status = Get(data.status, inst.status),
                 !.paid = Get(data.paid, inst.paid)]

\* if order_items_data is not None: delete the order's items, create the new
OrderManageSerializer_replaceItems(d, o, data) ==
    IF Has(data.items)
    THEN OrderItems_createAll(OrderItems_deleteOf(d, o), o, data.items[1])
    ELSE d

\* An update that forgets to record the status it set.
OrderManageSerializer_unrecorded(d, o, inst, data) == d

\* if 'status' in validated_data: record the status change
OrderManageSerializer_record(d, o, inst, data) ==
    IF Has(data.status)
    THEN OrderStatusHistory_create(d, o, inst.status)
    ELSE d

\* OrderManageSerializer.update
OrderManageSerializer_update(d, o, instance, data) ==
    LET inst == OrderManageSerializer_assign(instance, data)
        d1 == Order_save(d, o, inst)
        d2 == OrderManageSerializer_replaceItems(d1, o, data)
    IN OrderManageSerializer_record(d2, o, inst, data)

\* OrderCancelSerializer.update
OrderCancelSerializer_update(d, o, instance) ==
    LET inst == [instance EXCEPT !.status = "CANCELLED"]
        d1 == Order_save(d, o, inst)
    IN OrderStatusHistory_create(d1, o, "CANCELLED")

\* An item cancellation that cancels the order whatever items remain.
OrderItemCancelSerializer_always(d, o, order) ==
    OrderStatusHistory_create(
        Order_save(d, o, [order EXCEPT !.status = "CANCELLED"]),
        o, "CANCELLED")

\* if not order.order_items.exists(): cancel the order and record it
OrderItemCancelSerializer_cascade(d, o, order) ==
    IF ~order_items_exists(d, o)
    THEN OrderStatusHistory_create(
             Order_save(d, o, [order EXCEPT !.status = "CANCELLED"]),
             o, "CANCELLED")
    ELSE d

\* OrderItemCancelSerializer.update; instance is the OrderItem row the view
\* loaded, order the row instance.order fetches.
OrderItemCancelSerializer_update(d, i, instance) ==
    LET o == instance.order
        order == d.order[o]
        d1 == OrderItem_delete(d, i)
    IN OrderItemCancelSerializer_cascade(d1, o, order)

\* Every serializer method above returns its instance: none raises, so the
\* routing layer answers each of these requests with success.
Response == "OK"

\* OrderItemManageSerializer's validation of one entry: quantity is a
\* PositiveIntegerField, which admits every integer from 0 up.
OrderItemManageSerializer_is_valid(itemData) == itemData.quantity >= 0

\* OrderManageSerializer's validation of a creation: items is the nested
\* serializer with many=True and nothing else, so each entry is validated and
\* a list without entries passes; status is one of STATUS_CHOICES.
OrderManageSerializer_is_valid(data) ==
    /\ \A k \in DOMAIN data.items :
           OrderItemManageSerializer_is_valid(data.items[k])
    /\ Has(data.status) => data.status[1] \in Status

\* ------------------------------------------------------------------- cost
\* self.order_items.all(): the order's rows, in an order the database
\* chooses (the query names none): every arrangement of them.
order_items_all(d, o) ==
    {s \in [1..Cardinality(ItemsOf(d, o)) -> ItemsOf(d, o)] :
        \A j, k \in DOMAIN s : j # k => s[j] # s[k]}

\* A line that forgets its quantity.
LineCost_unit(d, i) == d.price[d.item[i].menu_item]

\* item.menu_item.price * item.quantity
LineCost(d, i) == d.price[d.item[i].menu_item] * d.item[i].quantity

\* sum(...) over the rows as they come, starting from 0
RECURSIVE SumLines(_, _)
SumLines(d, rows) ==
    IF rows = <<>> THEN 0
    ELSE LineCost(d, rows[1]) + SumLines(d, Tail(rows))

\* Order.get_total_cost: the values it may return, one per arrangement
get_total_cost(d, o) == {SumLines(d, rows) : rows \in order_items_all(d, o)}

\* ----------------------------------------------------------------- tables
Tables == {1, 2}

\* self.orders: the orders whose table is this one
Table_orders(d, t) == {o \in OrderIds(d) : d.order[o].table = t}

\* A table counted as taken by any order, whatever the order's status.
is_available_unfiltered(d, t) == Table_orders(d, t) = {}

\* Table.is_available
is_available(d, t) ==
    ~(\E o \in Table_orders(d, t) :
          d.order[o].status \in {"PENDING", "PREPARING"})

\* ----------------------------------------------------------------- ledger
Restaurants == {1}
Pairs == Users \X Restaurants

RECURSIVE PairSum(_, _)
PairSum(rows, pair) ==
    IF rows = <<>> THEN 0
    ELSE (IF rows[1].pair = pair THEN rows[1].amount ELSE 0)
         + PairSum(Tail(rows), pair)

\* user.get_total_points(restaurant): the balance of the pair
get_total_points(d, pair) == PairSum(d.point, pair)

\* Point.add_points
add_points(d, pair, amount) == Point_create(d, pair, amount)

\* Point.spend_points, its condition: the balance read and compared
spend_points_check(d, pair, amount) == get_total_points(d, pair) >= amount

\* A spend_points that appends whatever the balance is.
spend_points_unchecked(d, pair, amount, enough) ==
    [db |-> Point_create(d, pair, -amount), ret |-> TRUE]

\* Point.spend_points, its two branches: the store afterwards and the value
\* returned, given what the condition found
spend_points_branch(d, pair, amount, enough) ==
    IF enough
    THEN [db |-> Point_create(d, pair, -amount), ret |-> TRUE]
    ELSE [db |-> d, ret |-> FALSE]

\* Point.spend_points
spend_points(d, pair, amount) ==
    spend_points_branch(d, pair, amount, spend_points_check(d, pair, amount))

\* ------------------------------------------------------- request inputs
ItemData == [menu_item : {1}, quantity : {1}]
ItemLists == SeqsUpTo(ItemData, MaxItems)

\* validated_data of OrderManageSerializer on create: items is required,
\* every other key may be left out (status and paid are writable fields).
CreateInputs ==
    [status : Opt(Status), paid : {<<>>}, table : {<<>>},
     user : {<<>>}, items : ItemLists]

\* validated_data of OrderManageSerializer on update (a partial update may
\* leave out any key).  The lifecycle requests leave paid and table out:
\* no statement reads them, update copies them to the row as they are.
UpdateInputs ==
    [status : Opt(Status), paid : {<<>>}, table : {<<>>},
     items : Opt(ItemLists)]

\* What a client may send to orders/create/, before validation.
Quantities == {-1, 0, 1}
RawItemData == [menu_item : {1}, quantity : Quantities]
RawCreateInputs ==
    [status : Opt(Status), paid : {<<>>}, table : {<<>>},
     user : {<<>>}, items : SeqsUpTo(RawItemData, MaxItems)]

Amounts == {-5, 0, 5, 10, 15}

\* ------------------------------------------------------------- bookkeeping
NoRequest ==
    [op |-> "none", order |-> 0, item |-> 0, hasStatus |-> FALSE,
     hasItems |-> FALSE, pre |-> <<>>, preHist |-> <<>>, preItems |-> {},
     prePoints |-> <<>>, items |-> <<>>, response |-> "none"]

NoCall ==
    [op |-> "none", pair |-> <<0, 0>>, amount |-> 0, ret |-> FALSE,
     preRows |-> <<>>]

\* A worker's position and locals.  oid, data and todo are the order id, the
\* validated_data and the items still to insert of an update; found, dropped,
\* torn and before record what the request met, for the claims.
Idle ==
    [pc |-> "idle", pair |-> <<0, 0>>, amount |-> 0, enough |-> FALSE,
     item |-> 0, instance |-> <<>>, order |-> <<>>, remaining |-> FALSE,
     oid |-> 0, data |-> <<>>, todo |-> <<>>, found |-> NoRequest,
     dropped |-> {}, torn |-> FALSE, before |-> <<>>]

\* Rows the OrderStatusHistory table holds.
RECURSIVE HistRows(_)
HistRows(h) == IF h = <<>> THEN 0 ELSE Len(h[1]) + HistRows(Tail(h))

Store(d) ==
    /\ orderRows' = d.order
    /\ orderItems' = d.item
    /\ nextItemId' = d.nextItem
    /\ statusHistory' = d.hist
    /\ pointRows' = d.point
    /\ menuPrice' = d.price

\* What a request on order o finds before it runs.
Found(op, o, i, hasStatus, hasItems) ==
    [op |-> op, order |-> o, item |-> i, hasStatus |-> hasStatus,
     hasItems |-> hasItems, pre |-> <<orderRows[o]>>,
     preHist |-> statusHistory[o], preItems |-> ItemsOf(DB, o),
     prePoints |-> pointRows, items |-> <<>>, response |-> Response]

Init ==
    /\ orderRows = <<>>
    /\ orderItems = <<>>
    /\ nextItemId = 1
    /\ statusHistory = <<>>
    /\ pointRows = <<>>
    /\ menuPrice = [m \in MenuItems |-> IF m = 1 THEN 500 ELSE 300]
    /\ workers = [w \in 1..NumWorkers |-> Idle]
    /\ last = NoRequest
    /\ lastPoint = NoCall

\* ------------------------------------------- requests, one action each
\* orders/create/
CreateOrder(data) ==
    /\ Len(orderRows) + 1 \in OrderSlots
    /\ HistRows(statusHistory) < MaxHist
    /\ nextItemId + Len(data.items) - 1 <= MaxItemIds
    /\ Store(OrderManageSerializer_create(DB, data))
    /\ last' = [NoRequest EXCEPT !.op = "create", !.order = Len(orderRows) + 1,
                                 !.hasStatus = Has(data.status),
                                 !.hasItems = TRUE, !.response = Response]
    /\ UNCHANGED <<workers, lastPoint>>

\* orders/<pk>/update/
UpdateOrder(o, data) ==
    /\ o \in OrderIds(DB)
    /\ Has(data.status) => HistRows(statusHistory) < MaxHist
    /\ Has(data.items) => nextItemId + Len(data.items[1]) - 1 <= MaxItemIds
    /\ Store(OrderManageSerializer_update(DB, o, orderRows[o], data))
    /\ last' = Found("update", o, 0, Has(data.status), Has(data.items))
    /\ UNCHANGED <<workers, lastPoint>>

\* orders/<pk>/cancel/
CancelOrder(o) ==
    /\ o \in OrderIds(DB)
    /\ HistRows(statusHistory) < MaxHist
    /\ Store(OrderCancelSerializer_update(DB, o, orderRows[o]))
    /\ last' = Found("cancel", o, 0, TRUE, FALSE)
    /\ UNCHANGED <<workers, lastPoint>>

\* order-items/<pk>/cancel/
CancelOrderItem(i) ==
    /\ i \in ItemIds(DB)
    /\ ItemsOf(DB, orderItems[i].order) = {i} =>
           HistRows(statusHistory) < MaxHist
    /\ Store(OrderItemCancelSerializer_update(DB, i, orderItems[i]))
    /\ last' = Found("cancelItem", orderItems[i].order, i, FALSE, FALSE)
    /\ UNCHANGED <<workers, lastPoint>>

Next ==
    \/ \E data \in CreateInputs : CreateOrder(data)
    \/ \E o \in OrderSlots, data \in UpdateInputs : UpdateOrder(o, data)
    \/ \E o \in OrderSlots : CancelOrder(o)
    \/ \E i \in 1..MaxItemIds : CancelOrderItem(i)

Spec == Init /\ [][Next]_vars

\* The same requests, with the creations the contract admits only: no status
\* chosen by the caller, at least one item.
ContractCreateInputs ==
    {data \in CreateInputs : ~Has(data.status) /\ data.items # <<>>}

NextContract ==
    \/ \E data \in ContractCreateInputs : CreateOrder(data)
    \/ \E o \in OrderSlots, data \in UpdateInputs : UpdateOrder(o, data)
    \/ \E o \in OrderSlots : CancelOrder(o)
    \/ \E i \in 1..MaxItemIds : CancelOrderItem(i)

SpecContract == Init /\ [][NextContract]_vars

\* The same requests on orders of a customer or of nobody.
LoyaltyCreateInputs ==
    [status : {<<>>}, paid : {<<>>}, table : {<<>>}, user : Opt(Users),
     items : ItemLists \ {<<>>}]

NextLoyalty ==
    \/ \E data \in LoyaltyCreateInputs : CreateOrder(data)
    \/ \E o \in OrderSlots, data \in UpdateInputs : UpdateOrder(o, data)
    \/ \E o \in OrderSlots : CancelOrder(o)
    \/ \E i \in 1..MaxItemIds : CancelOrderItem(i)

SpecLoyalty == Init /\ [][NextLoyalty]_vars

\* Orders at tables: two orders, each at a table or at none, created PENDING
\* or READY, moved between tables and statuses.
TableOrderSlots == {1, 2}

TableCreateInputs ==
    [status : Opt({"READY"}), paid : {<<>>}, table : Opt(Tables),
     user : {<<>>}, items : {<<[menu_item |-> 1, quantity |-> 1]>>}]

TableUpdateInputs ==
    [status : Opt(Status), paid : {<<>>},
     table : Opt(Tables \cup {NoTable}), items : {<<>>}]

CreateAtTable(data) ==
    /\ Len(orderRows) + 1 \in TableOrderSlots
    /\ HistRows(statusHistory) < MaxHist
    /\ nextItemId + Len(data.items) - 1 <= MaxItemIds
    /\ Store(OrderManageSerializer_create(DB, data))
    /\ last' = [NoRequest EXCEPT !.op = "create", !.order = Len(orderRows) + 1,
                                 !.hasStatus = Has(data.status),
                                 !.hasItems = TRUE, !.response = Response]
    /\ UNCHANGED <<workers, lastPoint>>

NextTables ==
    \/ \E data \in TableCreateInputs : CreateAtTable(data)
    \/ \E o \in TableOrderSlots, data \in TableUpdateInputs :
           UpdateOrder(o, data)
    \/ \E o \in TableOrderSlots : CancelOrder(o)
    \/ \E i \in 1..MaxItemIds : CancelOrderItem(i)

SpecTables == Init /\ [][NextTables]_vars

\* Orders of several menu items and quantities; items are cancelled and
\* replaced, and menu prices change.
CostItemData == [menu_item : MenuItems, quantity : {1, 2}]
CostItemLists == SeqsUpTo(CostItemData, MaxItems)

CostCreateInputs ==
    [status : {<<>>}, paid : {<<>>}, table : {<<>>}, user : {<<>>},
     items : CostItemLists \ {<<>>}]

CostUpdateInputs ==
    [status : {<<>>}, paid : {<<>>}, table : {<<>>},
     items : {<<l>> : l \in CostItemLists}]

\* a price edit of a MenuItem row
SetPrice(m, p) ==
    /\ menuPrice[m] # p
    /\ menuPrice' = [menuPrice EXCEPT ![m] = p]
    /\ UNCHANGED <<orderRows, orderItems, nextItemId, statusHistory,
                   pointRows, workers, last, lastPoint>>

NextCost ==
    \/ \E data \in CostCreateInputs : CreateOrder(data)
    \/ \E o \in OrderSlots, data \in CostUpdateInputs : UpdateOrder(o, data)
    \/ \E i \in 1..MaxItemIds : CancelOrderItem(i)
    \/ \E m \in MenuItems, p \in Prices : SetPrice(m, p)

SpecCost == Init /\ [][NextCost]_vars

\* Orders that are paid or not, at a table or not; their status is updated
\* and their items are cancelled.
FrameCreateInputs ==
    [status : {<<>>}, paid : Opt({TRUE}), table : Opt({1}), user : {<<>>},
     items : ItemLists \ {<<>>}]

FrameUpdateInputs ==
    [status : Opt({"READY", "COMPLETED"}), paid : {<<>>}, table : {<<>>},
     items : {<<>>}]

NextFrame ==
    \/ \E data \in FrameCreateInputs : CreateOrder(data)
    \/ \E o \in OrderSlots, data \in FrameUpdateInputs : UpdateOrder(o, data)
    \/ \E i \in 1..MaxItemIds : CancelOrderItem(i)

SpecFrame == Init /\ [][NextFrame]_vars

\* orders/create/ from the request as sent: the serializer validates it and
\* creates only from valid data; invalid data is answered with the error and
\* nothing is created.
CreateOrderRequest(data) ==
    /\ Len(orderRows) + 1 \in OrderSlots
    /\ HistRows(statusHistory) < MaxHist
    /\ nextItemId + Len(data.items) - 1 <= MaxItemIds
    /\ IF OrderManageSerializer_is_valid(data)
       THEN /\ Store(OrderManageSerializer_create(DB, data))
            /\ last' = [NoRequest EXCEPT !.op = "create",
                                         !.order = Len(orderRows) + 1,
                                         !.hasStatus = Has(data.status),
                                         !.hasItems = TRUE,
                                         !.items = data.items,
                                         !.response = Response]
       ELSE /\ last' = [NoRequest EXCEPT !.op = "create",
                                         !.order = Len(orderRows) + 1,
                                         !.hasStatus = Has(data.status),
                                         !.hasItems = TRUE,
                                         !.items = data.items,
                                         !.response = "InvalidArgument"]
            /\ UNCHANGED <<orderRows, orderItems, nextItemId, statusHistory,
                           pointRows, menuPrice>>
    /\ UNCHANGED <<workers, lastPoint>>

NextCreate ==
    \/ \E data \in RawCreateInputs : CreateOrderRequest(data)
    \/ \E o \in OrderSlots : CancelOrder(o)
    \/ \E i \in 1..MaxItemIds : CancelOrderItem(i)

SpecCreate == Init /\ [][NextCreate]_vars

\* Ledger calls, one action each.
Earn(pair, amount) ==
    /\ Len(pointRows) < MaxPoints
    /\ Store(add_points(DB, pair, amount))
    /\ lastPoint' = [op |-> "earn", pair |-> pair, amount |-> amount,
                     ret |-> TRUE, preRows |-> pointRows]
    /\ UNCHANGED <<workers, last>>

Spend(pair, amount) ==
    /\ Len(pointRows) < MaxPoints
    /\ LET r == spend_points(DB, pair, amount)
       IN /\ Store(r.db)
          /\ lastPoint' = [op |-> "spend", pair |-> pair, amount |-> amount,
                           ret |-> r.ret, preRows |-> pointRows]
    /\ UNCHANGED <<workers, last>>

NextLedger ==
    \/ \E pair \in Pairs, amount \in Amounts : Earn(pair, amount)
    \/ \E pair \in Pairs, amount \in Amounts : Spend(pair, amount)

SpecLedger == Init /\ [][NextLedger]_vars

\* ------------------------------------------ concurrent ledger calls
\* Workers run spend_points one statement at a time: the balance is read and
\* compared in one query, the row is appended in another.
InFlight == {w \in 1..NumWorkers : workers[w].pc # "idle"}

SpendPairs == {<<1, 1>>}
SpendAmounts == {a \in Amounts : a > 0 /\ a <= 10}

\* if user.get_total_points(restaurant) >= amount:
SpendCheck(w, pair, amount) ==
    /\ workers[w].pc = "idle"
    /\ Len(pointRows) + Cardinality(InFlight) < MaxPoints
    /\ workers' = [workers EXCEPT ![w] =
           [Idle EXCEPT !.pc = "spend_checked", !.pair = pair,
                        !.amount = amount,
                        !.enough = spend_points_check(DB, pair, amount)]]
    /\ UNCHANGED <<orderRows, orderItems, nextItemId, statusHistory,
                   pointRows, menuPrice, last, lastPoint>>

\* Point.objects.create(...); return True / return False
SpendReturn(w) ==
    /\ workers[w].pc = "spend_checked"
    /\ LET me == workers[w]
           r == spend_points_branch(DB, me.pair, me.amount, me.enough)
       IN /\ Store(r.db)
          /\ lastPoint' = [op |-> "spend", pair |-> me.pair,
                           amount |-> me.amount, ret |-> r.ret,
                           preRows |-> pointRows]
    /\ workers' = [workers EXCEPT ![w] = Idle]
    /\ UNCHANGED last

EarnSome(pair, amount) ==
    /\ Len(pointRows) + Cardinality(InFlight) < MaxPoints
    /\ Earn(pair, amount)

NextLedgerConc ==
    \/ \E pair \in SpendPairs, amount \in SpendAmounts : EarnSome(pair, amount)
    \/ \E w \in 1..NumWorkers, pair \in SpendPairs, amount \in SpendAmounts :
           SpendCheck(w, pair, amount)
    \/ \E w \in 1..NumWorkers : SpendReturn(w)

SpecLedgerConc == Init /\ [][NextLedgerConc]_vars

\* ------------------------------------- concurrent item cancellations
\* Update workers that have deleted the items of order o and have inserted
\* none of their new, non-empty list yet.
Replacing(o) ==
    {u \in 1..NumWorkers :
        /\ workers[u].pc = "upd_inserting"
        /\ workers[u].oid = o
        /\ workers[u].todo # <<>>
        /\ workers[u].todo = workers[u].data[1].items[1]}

\* Worker w's query of the remaining items meets such a replacement, one that
\* deleted items w's request did not ask to remove.
Torn(w) ==
    \E u \in Replacing(workers[w].instance[1].order) :
        workers[u].dropped \ {workers[w].item} # {}

\* Workers run OrderItemCancelSerializer.update one statement at a time.
\* the view's lookup of the OrderItem
ItemCancelLoad(w, i) ==
    /\ workers[w].pc = "idle"
    /\ i \in ItemIds(DB)
    /\ HistRows(statusHistory) + Cardinality(InFlight) < MaxHist
    /\ workers' = [workers EXCEPT ![w] =
           [Idle EXCEPT !.pc = "loaded", !.item = i,
                        !.instance = <<orderItems[i]>>]]
    /\ UNCHANGED <<orderRows, orderItems, nextItemId, statusHistory,
                   pointRows, menuPrice, last, lastPoint>>

\* order = instance.order
ItemCancelFetch(w) ==
    /\ workers[w].pc = "loaded"
    /\ workers' = [workers EXCEPT ![w].pc = "fetched",
                                  ![w].order =
                                      <<orderRows[workers[w].instance[1].order]>>]
    /\ UNCHANGED <<orderRows, orderItems, nextItemId, statusHistory,
                   pointRows, menuPrice, last, lastPoint>>

\* instance.delete()
ItemCancelDelete(w) ==
    /\ workers[w].pc = "fetched"
    /\ Store(OrderItem_delete(DB, workers[w].item))
    /\ workers' = [workers EXCEPT ![w].pc = "deleted"]
    /\ UNCHANGED <<last, lastPoint>>

\* if not order.order_items.exists():
ItemCancelCheck(w) ==
    /\ workers[w].pc = "deleted"
    /\ workers' = [workers EXCEPT ![w].pc = "checked",
                                  ![w].remaining =
                                      order_items_exists(
                                          DB, workers[w].instance[1].order),
                                  ![w].torn = Torn(w)]
    /\ UNCHANGED <<orderRows, orderItems, nextItemId, statusHistory,
                   pointRows, menuPrice, last, lastPoint>>

\* order.status = "CANCELLED"; order.save()
ItemCancelSave(w) ==
    /\ workers[w].pc = "checked"
    /\ ~workers[w].remaining
    /\ Store(Order_save(DB, workers[w].instance[1].order,
                        [workers[w].order[1] EXCEPT !.status = "CANCELLED"]))
    /\ workers' = [workers EXCEPT ![w].pc = "saved",
                                  ![w].before =
                                      <<orderRows[workers[w].instance[1].order]>>]
    /\ UNCHANGED <<last, lastPoint>>

Returned(w) ==
    [NoRequest EXCEPT !.op = "cancelItem",
                      !.order = workers[w].instance[1].order,
                      !.item = workers[w].item,
                      !.pre = workers[w].order,
                      !.response = Response]

\* OrderStatusHistory.objects.create(order=order, status="CANCELLED");
\* return instance
ItemCancelRecord(w) ==
    /\ workers[w].pc = "saved"
    /\ Store(OrderStatusHistory_create(DB, workers[w].instance[1].order,
                                       "CANCELLED"))
    /\ workers' = [workers EXCEPT ![w] = Idle]
    /\ last' = Returned(w)
    /\ UNCHANGED lastPoint

\* return instance, items remaining
ItemCancelReturn(w) ==
    /\ workers[w].pc = "checked"
    /\ workers[w].remaining
    /\ workers' = [workers EXCEPT ![w] = Idle]
    /\ last' = Returned(w)
    /\ UNCHANGED <<orderRows, orderItems, nextItemId, statusHistory,
                   pointRows, menuPrice, lastPoint>>

\* An order is created, then only item cancellations run on it.
CreateQuiet(data) ==
    /\ InFlight = {}
    /\ CreateOrder(data)

NextItemCancel ==
    \/ \E data \in CreateInputs : CreateQuiet(data)
    \/ \E w \in 1..NumWorkers, i \in 1..MaxItemIds : ItemCancelLoad(w, i)
    \/ \E w \in 1..NumWorkers : ItemCancelFetch(w)
    \/ \E w \in 1..NumWorkers : ItemCancelDelete(w)
    \/ \E w \in 1..NumWorkers : ItemCancelCheck(w)
    \/ \E w \in 1..NumWorkers : ItemCancelSave(w)
    \/ \E w \in 1..NumWorkers : ItemCancelRecord(w)
    \/ \E w \in 1..NumWorkers : ItemCancelReturn(w)

SpecItemCancel == Init /\ [][NextItemCancel]_vars

\* ------------------------------------------- updates, statement by statement
\* Workers run OrderManageSerializer.update one statement at a time.
\* Items the updates in flight have still to insert.
RECURSIVE Pending(_)
Pending(W) ==
    IF W = {} THEN 0
    ELSE LET w == CHOOSE x \in W : TRUE
         IN Len(workers[w].todo) + Pending(W \ {w})

\* the view's lookup of the Order; order_items_data = validated_data.pop(
\* "items", None)
UpdLoad(w, o, data) ==
    /\ workers[w].pc = "idle"
    /\ o \in OrderIds(DB)
    /\ HistRows(statusHistory) + Cardinality(InFlight) < MaxHist
    /\ nextItemId + Pending(1..NumWorkers) + Len(Get(data.items, <<>>)) - 1
           <= MaxItemIds
    /\ workers' = [workers EXCEPT ![w] =
           [Idle EXCEPT !.pc = "upd_loaded", !.oid = o,
                        !.order = <<orderRows[o]>>, !.data = <<data>>,
                        !.todo = Get(data.items, <<>>),
                        !.found = Found("update", o, 0, Has(data.status),
                                        Has(data.items))]]
    /\ UNCHANGED <<orderRows, orderItems, nextItemId, statusHistory,
                   pointRows, menuPrice, last, lastPoint>>

\* instance.table = ...; instance.status = ...; instance.paid = ...;
\* instance.save()
UpdSave(w) ==
    /\ workers[w].pc = "upd_loaded"
    /\ LET inst == OrderManageSerializer_assign(workers[w].order[1],
                                                workers[w].data[1])
       IN /\ Store(Order_save(DB, workers[w].oid, inst))
          /\ workers' = [workers EXCEPT ![w].pc = "upd_saved",
                                        ![w].order = <<inst>>,
                                        ![w].before =
                                            <<orderRows[workers[w].oid]>>]
    /\ UNCHANGED <<last, lastPoint>>

\* if order_items_data is not None:
\*     OrderItem.objects.filter(order=instance).delete()
UpdDelete(w) ==
    /\ workers[w].pc = "upd_saved"
    /\ Has(workers[w].data[1].items)
    /\ Store(OrderItems_deleteOf(DB, workers[w].oid))
    /\ workers' = [workers EXCEPT ![w].pc = "upd_inserting",
                                  ![w].dropped = ItemsOf(DB, workers[w].oid)]
    /\ UNCHANGED <<last, lastPoint>>

\* for order_item_data in order_items_data: OrderItem.objects.create(...)
UpdInsert(w) ==
    /\ workers[w].pc = "upd_inserting"
    /\ workers[w].todo # <<>>
    /\ Store(OrderItem_create(DB, workers[w].oid, Head(workers[w].todo)))
    /\ workers' = [workers EXCEPT ![w].todo = Tail(@)]
    /\ UNCHANGED <<last, lastPoint>>

\* if 'status' in validated_data: OrderStatusHistory.objects.create(...);
\* return instance
UpdReturn(w) ==
    /\ \/ workers[w].pc = "upd_saved" /\ ~Has(workers[w].data[1].items)
       \/ workers[w].pc = "upd_inserting" /\ workers[w].todo = <<>>
    /\ Store(OrderManageSerializer_record(DB, workers[w].oid,
                                          workers[w].order[1],
                                          workers[w].data[1]))
    /\ workers' = [workers EXCEPT ![w] = Idle]
    /\ last' = workers[w].found
    /\ UNCHANGED lastPoint

\* One update at a time, its statements one by one.
UpdLoadAlone(w, o, data) ==
    /\ InFlight = {}
    /\ UpdLoad(w, o, data)

\* The worker that serves these requests.
StepWorkers == {1}

NextUpdateSteps ==
    \/ \E data \in ContractCreateInputs : CreateQuiet(data)
    \/ \E w \in StepWorkers, o \in OrderSlots, data \in UpdateInputs :
           UpdLoadAlone(w, o, data)
    \/ \E w \in StepWorkers : UpdSave(w)
    \/ \E w \in StepWorkers : UpdDelete(w)
    \/ \E w \in StepWorkers : UpdInsert(w)
    \/ \E w \in StepWorkers : UpdReturn(w)

SpecUpdateSteps == Init /\ [][NextUpdateSteps]_vars

\* ---------------------------- replacements among item cancellations
\* Updates that replace the items by a list that is not empty.
ReplaceInputs ==
    [status : {<<>>}, paid : {<<>>}, table : {<<>>},
     items : {<<l>> : l \in ItemLists \ {<<>>}}]

NextReplace ==
    \/ \E data \in ContractCreateInputs : CreateQuiet(data)
    \/ \E w \in 1..NumWorkers, o \in OrderSlots, data \in ReplaceInputs :
           UpdLoad(w, o, data)
    \/ \E w \in 1..NumWorkers : UpdSave(w)
    \/ \E w \in 1..NumWorkers : UpdDelete(w)
    \/ \E w \in 1..NumWorkers : UpdInsert(w)
    \/ \E w \in 1..NumWorkers : UpdReturn(w)
    \/ \E w \in 1..NumWorkers, i \in 1..MaxItemIds : ItemCancelLoad(w, i)
    \/ \E w \in 1..NumWorkers : ItemCancelFetch(w)
    \/ \E w \in 1..NumWorkers : ItemCancelDelete(w)
    \/ \E w \in 1..NumWorkers : ItemCancelCheck(w)
    \/ \E w \in 1..NumWorkers : ItemCancelSave(w)
    \/ \E w \in 1..NumWorkers : ItemCancelRecord(w)
    \/ \E w \in 1..NumWorkers : ItemCancelReturn(w)

SpecReplace == Init /\ [][NextReplace]_vars

\* ------------------------------------------ cancels, statement by statement
\* Workers run OrderCancelSerializer.update one statement at a time.
\* the view's lookup of the Order
CancelLoad(w, o) ==
    /\ workers[w].pc = "idle"
    /\ o \in OrderIds(DB)
    /\ HistRows(statusHistory) + Cardinality(InFlight) < MaxHist
    /\ workers' = [workers EXCEPT ![w] =
           [Idle EXCEPT !.pc = "cancel_loaded", !.oid = o,
                        !.order = <<orderRows[o]>>,
                        !.found = Found("cancel", o, 0, TRUE, FALSE)]]
    /\ UNCHANGED <<orderRows, orderItems, nextItemId, statusHistory,
                   pointRows, menuPrice, last, lastPoint>>

\* instance.status = "CANCELLED"; instance.save()
CancelSave(w) ==
    /\ workers[w].pc = "cancel_loaded"
    /\ LET inst == [workers[w].order[1] EXCEPT !.status = "CANCELLED"]
       IN /\ Store(Order_save(DB, workers[w].oid, inst))
          /\ workers' = [workers EXCEPT ![w].pc = "cancel_saved",
                                        ![w].order = <<inst>>,
                                        ![w].before =
                                            <<orderRows[workers[w].oid]>>]
    /\ UNCHANGED <<last, lastPoint>>

\* OrderStatusHistory.objects.create(order=instance, status="CANCELLED");
\* return instance
CancelRecord(w) ==
    /\ workers[w].pc = "cancel_saved"
    /\ Store(OrderStatusHistory_create(DB, workers[w].oid, "CANCELLED"))
    /\ workers' = [workers EXCEPT ![w] = Idle]
    /\ last' = workers[w].found
    /\ UNCHANGED lastPoint

\* Updates of the status among cancels and item cancellations of the same
\* order.
InterleaveInputs ==
    [status : Opt({"READY"}), paid : {<<>>}, table : {<<>>}, items : {<<>>}]

NextInterleave ==
    \/ \E data \in ContractCreateInputs : CreateQuiet(data)
    \/ \E w \in 1..NumWorkers, o \in OrderSlots, data \in InterleaveInputs :
           UpdLoad(w, o, data)
    \/ \E w \in 1..NumWorkers : UpdSave(w)
    \/ \E w \in 1..NumWorkers : UpdReturn(w)
    \/ \E w \in 1..NumWorkers, o \in OrderSlots : CancelLoad(w, o)
    \/ \E w \in 1..NumWorkers : CancelSave(w)
    \/ \E w \in 1..NumWorkers : CancelRecord(w)
    \/ \E w \in 1..NumWorkers, i \in 1..MaxItemIds : ItemCancelLoad(w, i)
    \/ \E w \in 1..NumWorkers : ItemCancelFetch(w)
    \/ \E w \in 1..NumWorkers : ItemCancelDelete(w)
    \/ \E w \in 1..NumWorkers : ItemCancelCheck(w)
    \/ \E w \in 1..NumWorkers : ItemCancelSave(w)
    \/ \E w \in 1..NumWorkers : ItemCancelRecord(w)
    \/ \E w \in 1..NumWorkers : ItemCancelReturn(w)

SpecInterleave == Init /\ [][NextInterleave]_vars

\* Updates of the paid flag and the table among cancels and item
\* cancellations of the same order.
PaidTableInputs ==
    {data \in [status : {<<>>}, paid : Opt({TRUE}), table : Opt({1}),
               items : {<<>>}] : Has(data.paid) \/ Has(data.table)}

NextPaidTable ==
    \/ \E data \in ContractCreateInputs : CreateQuiet(data)
    \/ \E w \in 1..NumWorkers, o \in OrderSlots, data \in PaidTableInputs :
           UpdLoad(w, o, data)
    \/ \E w \in 1..NumWorkers : UpdSave(w)
    \/ \E w \in 1..NumWorkers : UpdReturn(w)
    \/ \E w \in 1..NumWorkers, o \in OrderSlots : CancelLoad(w, o)
    \/ \E w \in 1..NumWorkers : CancelSave(w)
    \/ \E w \in 1..NumWorkers : CancelRecord(w)
    \/ \E w \in 1..NumWorkers, i \in 1..MaxItemIds : ItemCancelLoad(w, i)
    \/ \E w \in 1..NumWorkers : ItemCancelFetch(w)
    \/ \E w \in 1..NumWorkers : ItemCancelDelete(w)
    \/ \E w \in 1..NumWorkers : ItemCancelCheck(w)
    \/ \E w \in 1..NumWorkers : ItemCancelSave(w)
    \/ \E w \in 1..NumWorkers : ItemCancelRecord(w)
    \/ \E w \in 1..NumWorkers : ItemCancelReturn(w)

SpecPaidTable == Init /\ [][NextPaidTable]_vars

\* ------------------------------------------------ the order of `last`
LastRow == orderRows[last.order]
LastHist == statusHistory[last.order]
LastItems == ItemsOf(DB, last.order)
PreStatus == last.pre[1].status
OnExisting == last.op \in {"update", "cancel", "cancelItem"}

\* The request set the order's status: an update carrying a status, a cancel,
\* or an item cancellation that emptied the order.
SetsStatus ==
    \/ last.op = "update" /\ last.hasStatus
    \/ last.op = "cancel"
    \/ last.op = "cancelItem" /\ LastItems = {}

\* C1 as stated: after its creation an order has at least one history entry;
\* a request that changes the status appends exactly one entry carrying the
\* new status, and a request that leaves the status as it was appends none.
C1_StatusChangeIffOneEntry ==
    /\ last.op = "create" => Len(LastHist) >= 1
    /\ OnExisting =>
         IF LastRow.status # PreStatus
         THEN LastHist = Append(last.preHist, LastRow.status)
         ELSE LastHist = last.preHist

\* C1 as amended: after its creation an order has at least one history entry;
\* a request that sets the status (an update carrying a status, a cancel, an
\* item cancellation emptying the order) appends exactly one entry carrying
\* the status it set, whether or not that status differs from the previous
\* one, so every status change appends exactly one entry; a request that
\* sets no status appends none.
C1_StatusPathAppendsOneEntry ==
    /\ last.op = "create" => LastHist = <<LastRow.status>>
    /\ OnExisting /\ LastRow.status # PreStatus => SetsStatus
    /\ OnExisting /\ SetsStatus =>
         LastHist = Append(last.preHist, LastRow.status)
    /\ OnExisting /\ ~SetsStatus => LastHist = last.preHist

\* C1's case: an update moved the order to another status and one entry with
\* that status was appended.
C1_Witness ==
    /\ last.op = "update"
    /\ LastRow.status # PreStatus
    /\ LastHist = Append(last.preHist, LastRow.status)

\* C3: a status update or a cancel of an order that is COMPLETED or CANCELLED
\* is rejected as an invalid state transition and leaves the status and the
\* status history as they were.
C3_TerminalStatusFrozen ==
    /\ \/ last.op = "update" /\ last.hasStatus
       \/ last.op = "cancel"
    /\ PreStatus \in Terminal
    => /\ last.response = "InvalidStateTransition"
       /\ LastRow.status = PreStatus
       /\ LastHist = last.preHist

\* C4: an item cancellation or an item replacement on an order that is
\* COMPLETED or CANCELLED is rejected as an invalid state transition and
\* leaves the order's items as they were.
C4_TerminalItemsFrozen ==
    /\ \/ last.op = "cancelItem"
       \/ last.op = "update" /\ last.hasItems
    /\ PreStatus \in Terminal
    => /\ last.response = "InvalidStateTransition"
       /\ LastItems = last.preItems

\* C5: cancelling the last item of a PENDING, PREPARING or READY order leaves
\* it CANCELLED with one CANCELLED entry appended; cancelling an item of an
\* order that is already terminal does not change its status.
C5_LastItemCancelsOrder ==
    last.op = "cancelItem" =>
        /\ last.preItems = {last.item} /\ PreStatus \in NonTerminal =>
              /\ LastRow.status = "CANCELLED"
              /\ LastHist = Append(last.preHist, "CANCELLED")
        /\ PreStatus \in Terminal => LastRow.status = PreStatus

\* C6: an order without items has status CANCELLED.
C6_EmptyOrderIsCancelled ==
    \A o \in OrderIds(DB) :
        ItemsOf(DB, o) = {} => orderRows[o].status = "CANCELLED"

\* ------------------------------------------------- the call of `lastPoint`
PreBalance == PairSum(lastPoint.preRows, lastPoint.pair)
Balance(pair) == get_total_points(DB, pair)

\* C8: a spend of more than the pair's balance returns failure, appends no
\* Point row and leaves the balance as it was.
C8_InsufficientSpendFails ==
    lastPoint.op = "spend" /\ PreBalance < lastPoint.amount =>
        /\ ~lastPoint.ret
        /\ pointRows = lastPoint.preRows
        /\ Balance(lastPoint.pair) = PreBalance

\* C8's case: with balance 10, spend 15 has returned failure.
C8_Witness ==
    /\ lastPoint.op = "spend"
    /\ PreBalance = 10
    /\ lastPoint.amount = 15
    /\ ~lastPoint.ret
    /\ Balance(lastPoint.pair) = 10

\* C9: after every earn or spend, of any integer amount, the pair's balance
\* is the balance before plus the amount of the call when it succeeded
\* (positive for earn, negative for spend), no other pair's balance moves,
\* and no balance is negative.
C9_BalanceIsSumAndNonNegative ==
    /\ lastPoint.op = "earn" =>
           Balance(lastPoint.pair) = PreBalance + lastPoint.amount
    /\ lastPoint.op = "spend" =>
           Balance(lastPoint.pair) =
               PreBalance - (IF lastPoint.ret THEN lastPoint.amount ELSE 0)
    /\ \A pair \in Pairs \ {lastPoint.pair} :
           Balance(pair) = PairSum(lastPoint.preRows, pair)
    /\ \A pair \in Pairs : Balance(pair) >= 0

\* C10: an earn or a spend of an amount <= 0 appends no Point row.
C10_NonPositiveAmountRejected ==
    lastPoint.op \in {"earn", "spend"} /\ lastPoint.amount <= 0 =>
        pointRows = lastPoint.preRows

\* C2: a spend succeeds only when its amount is at most the pair's balance
\* at the moment its row is appended, so no interleaving of spends makes a
\* balance negative.
C2_SpendNeverOverdraws ==
    /\ lastPoint.op = "spend" /\ lastPoint.ret =>
           lastPoint.amount <= PreBalance
    /\ \A pair \in Pairs : Balance(pair) >= 0

\* C7: once every item cancellation has returned, an order that was created
\* in a non-terminal status and has no item left is CANCELLED.
C7_EmptiedOrderEndsCancelled ==
    /\ InFlight = {}
    /\ last.op = "cancelItem"
    /\ LastItems = {}
    /\ LastHist[1] \in NonTerminal
    => LastRow.status = "CANCELLED"

\* C7's case: two cancellations in flight together both found the order
\* empty; both have returned and the order is CANCELLED.
C7_Witness ==
    /\ InFlight = {}
    /\ last.op = "cancelItem"
    /\ LastItems = {}
    /\ LastHist = <<"PENDING", "CANCELLED", "CANCELLED">>
    /\ LastRow.status = "CANCELLED"

\* C11: every order is created in status PENDING with the single history
\* entry PENDING, whatever the caller sends.
C11_CreatedPending ==
    last.op = "create" =>
        /\ LastRow.status = "PENDING"
        /\ LastHist = <<"PENDING">>

\* C12: a creation whose item list is empty or holds a quantity <= 0 is
\* answered with invalid-argument and creates no Order, no OrderItem and no
\* history entry.
C12_InvalidItemsRejected ==
    /\ last.op = "create"
    /\ \/ last.items = <<>>
       \/ \E k \in DOMAIN last.items : last.items[k].quantity <= 0
    => /\ last.response = "InvalidArgument"
       /\ Len(orderRows) < last.order
       /\ ItemsOf(DB, last.order) = {}
       /\ Len(statusHistory) < last.order

\* C13: when an update moves an order from PENDING, PREPARING or READY to
\* COMPLETED and the order has a customer, exactly one Point row with a
\* positive amount is appended for (order.user, order.restaurant) and that
\* pair's balance increases; when the order has no customer, no Point row is
\* appended.
C13_CompletionAwardsPoints ==
    /\ last.op = "update"
    /\ last.hasStatus
    /\ PreStatus \in NonTerminal
    /\ LastRow.status = "COMPLETED"
    => IF LastRow.user # NoUser
       THEN /\ Len(pointRows) = Len(last.prePoints) + 1
            /\ SubSeq(pointRows, 1, Len(last.prePoints)) = last.prePoints
            /\ pointRows[Len(pointRows)].pair[1] = LastRow.user
            /\ pointRows[Len(pointRows)].pair[2] \in Restaurants
            /\ pointRows[Len(pointRows)].amount > 0
            /\ \A r \in Restaurants :
                   Balance(<<LastRow.user, r>>) >
                       PairSum(last.prePoints, <<LastRow.user, r>>)
       ELSE pointRows = last.prePoints

\* C14: in every state and for every table, is_available is false exactly
\* when some order at that table is PENDING or PREPARING: the answer follows
\* every status change, cancellation and move to another table at once.
C14_UnavailableIffOpenOrder ==
    \A t \in Tables :
        (is_available(DB, t) = FALSE) <=>
            Cardinality({o \in OrderIds(DB) :
                            /\ orderRows[o].table = t
                            /\ orderRows[o].status = "PENDING"
                               \/ orderRows[o].status = "PREPARING"}) >= 1

\* C14's case: an update moved a PENDING order from table 1 to table 2 while
\* the other order, READY, stays at table 1; table 1 is available at once and
\* table 2 is not.
C14_Witness ==
    /\ last.op = "update"
    /\ last.pre[1].table = 1
    /\ LastRow.table = 2
    /\ LastRow.status = "PENDING"
    /\ \E o \in OrderIds(DB) :
           orderRows[o].table = 1 /\ orderRows[o].status = "READY"
    /\ is_available(DB, 1)
    /\ ~is_available(DB, 2)

\* ------------------------------------------------------------ order totals
\* The sum, over a set of OrderItem rows, of quantity times current price.
RECURSIVE SumOver(_)
SumOver(S) ==
    IF S = {} THEN 0
    ELSE LET i == CHOOSE x \in S : TRUE
         IN orderItems[i].quantity * menuPrice[orderItems[i].menu_item]
            + SumOver(S \ {i})

\* The order holds exactly a line of quantity q1 at price p1 and a line of
\* quantity q2 at price p2.
TwoLines(o, q1, p1, q2, p2) ==
    \E i, j \in ItemsOf(DB, o) :
        /\ i # j
        /\ ItemsOf(DB, o) = {i, j}
        /\ orderItems[i].quantity = q1
        /\ menuPrice[orderItems[i].menu_item] = p1
        /\ orderItems[j].quantity = q2
        /\ menuPrice[orderItems[j].menu_item] = p2

\* C15: get_total_cost returns one value whatever the order in which the
\* items come, the sum over the order's current items of quantity times the
\* menu item's current price (quantity 2 at 5.00 and quantity 1 at 3.00 give
\* 13.00); after an item cancellation or a replacement only the items that
\* remain are counted.
C15_TotalIsSumOfCurrentLines ==
    \A o \in OrderIds(DB) :
        /\ get_total_cost(DB, o) = {SumOver(ItemsOf(DB, o))}
        /\ TwoLines(o, 2, 500, 1, 300) => get_total_cost(DB, o) = {1300}
        /\ last.op = "cancelItem" /\ last.order = o =>
               get_total_cost(DB, o) = {SumOver(last.preItems \ {last.item})}

\* C15's case: the item of quantity 1 at 3.00 was cancelled from an order
\* of quantity 2 at 5.00 and quantity 1 at 3.00; the total is now 10.00.
C15_Witness ==
    /\ last.op = "cancelItem"
    /\ Cardinality(last.preItems) = 2
    /\ \E i \in LastItems :
           /\ LastItems = {i}
           /\ orderItems[i].quantity = 2
           /\ menuPrice[orderItems[i].menu_item] = 500
    /\ get_total_cost(DB, last.order) = {1000}

\* C18: when an item cancellation removes an item and another item of the
\* order remains, the order row (status, paid, table) and the status history
\* are as before and the order's items are the former ones without that one.
C18_ItemCancelLeavesOrder ==
    /\ last.op = "cancelItem"
    /\ last.preItems \ {last.item} # {}
    => /\ LastRow = last.pre[1]
       /\ LastHist = last.preHist
       /\ LastItems = last.preItems \ {last.item}

\* C18's case: one of the two items of a paid READY order at table 1 was
\* cancelled; the order is still paid, READY, at table 1, with one item.
C18_Witness ==
    /\ last.op = "cancelItem"
    /\ Cardinality(last.preItems) = 2
    /\ Cardinality(LastItems) = 1
    /\ LastRow.status = "READY"
    /\ LastRow.paid
    /\ LastRow.table = 1
    /\ LastHist = <<"PENDING", "READY">>

\* ------------------------------------------ an update, step by step
\* Worker w runs an update that carries both a status and an item list and
\* has saved the order row.
Both(w) ==
    /\ workers[w].pc \in {"upd_saved", "upd_inserting"}
    /\ Has(workers[w].data[1].status)
    /\ Has(workers[w].data[1].items)

\* Worker w's update has deleted the old items and inserted all the new.
ItemsReplaced(w) ==
    workers[w].pc = "upd_inserting" /\ workers[w].todo = <<>>

\* The update that returned last, with no request running since.
UpdateDone == InFlight = {} /\ last.op = "update" /\ last.hasItems

\* C17 as stated: an update carrying items and no status leaves the status
\* and the status history as they were; in an update carrying both, the
\* items are replaced first: until they are, the order has its former status
\* and history, and the call ends with the one entry of the new status
\* appended.
C17_ItemsFirstThenStatus ==
    /\ UpdateDone /\ ~last.hasStatus =>
           LastRow.status = PreStatus /\ LastHist = last.preHist
    /\ UpdateDone /\ last.hasStatus =>
           LastHist = Append(last.preHist, LastRow.status)
    /\ \A w \in 1..NumWorkers :
           Both(w) /\ ~ItemsReplaced(w) =>
               /\ orderRows[workers[w].oid].status =
                      workers[w].found.pre[1].status
               /\ statusHistory[workers[w].oid] = workers[w].found.preHist

\* C17 as amended: an update carrying items and no status leaves the status
\* and the status history as they were; in an update carrying both, the new
\* status is written to the order first, the items are replaced next, and
\* the one history entry of the new status is appended last.
C17_StatusThenItemsThenEntry ==
    /\ UpdateDone /\ ~last.hasStatus =>
           LastRow.status = PreStatus /\ LastHist = last.preHist
    /\ UpdateDone /\ last.hasStatus =>
           /\ LastHist = Append(last.preHist, LastRow.status)
           /\ LastItems \cap last.preItems = {}
    /\ \A w \in 1..NumWorkers :
           Both(w) =>
               /\ orderRows[workers[w].oid].status =
                      workers[w].data[1].status[1]
               /\ statusHistory[workers[w].oid] = workers[w].found.preHist
               /\ workers[w].pc = "upd_saved" =>
                      ItemsOf(DB, workers[w].oid) = workers[w].found.preItems
               /\ workers[w].pc = "upd_inserting" =>
                      ItemsOf(DB, workers[w].oid)
                          \cap workers[w].found.preItems = {}

\* C17's case: an update carrying COMPLETED and an item list, on a PENDING
\* order, has written the status and replaced the items and has not yet
\* appended the entry.
C17_Witness ==
    \E w \in 1..NumWorkers :
        /\ Both(w)
        /\ ItemsReplaced(w)
        /\ workers[w].found.pre[1].status = "PENDING"
        /\ orderRows[workers[w].oid].status = "COMPLETED"
        /\ statusHistory[workers[w].oid] = <<"PENDING">>
        /\ ItemsOf(DB, workers[w].oid) # {}
        /\ ItemsOf(DB, workers[w].oid) \cap workers[w].found.preItems = {}

\* C16: a replacement of the items is atomic: no item cancellation's query
\* of the remaining items runs between the replacement's delete and its
\* inserts and finds the order without items, so a replacement by a list
\* that is not empty never has the order cancelled.
C16_ReplaceItemsIsAtomic ==
    \A w \in 1..NumWorkers :
        workers[w].pc \in {"checked", "saved"} =>
            ~(workers[w].torn /\ ~workers[w].remaining)

\* C19: whenever no request is running, the last entry of an order's status
\* history carries the order's current status.
C19_LastEntryIsStatus ==
    InFlight = {} =>
        \A o \in OrderIds(DB) :
            /\ statusHistory[o] # <<>>
            /\ statusHistory[o][Len(statusHistory[o])] = orderRows[o].status

\* C20: the save of a cancel or of an item cancellation changes the status
\* only: the paid flag and the table it writes are those the order row held
\* just before the save.
C20_CancelKeepsPaidAndTable ==
    \A w \in 1..NumWorkers :
        workers[w].pc \in {"cancel_saved", "saved"} =>
            /\ workers[w].order[1].paid = workers[w].before[1].paid
            /\ workers[w].order[1].table = workers[w].before[1].table
=============================================================================
